---- MODULE Spec2Model ----
(***************************************************************************)
(* Model of starlight-utils/src/phone.rs: normalisation of user-typed      *)
(* phone numbers to E.164 and detection of the country of an E.164 number. *)
(*                                                                         *)
(* A Rust String is a sequence of one-character strings; Option<T> is a    *)
(* sequence of length 0 (None) or 1 (Some(x) = <<x>>).  The library is a   *)
(* set of pure functions; the state machine is a caller that picks an      *)
(* operation and its arguments and records what the call returned.         *)
(***************************************************************************)
EXTENDS Naturals, Sequences, FiniteSets

VARIABLES pc, input, hint, result, valid, country, resolved, stripped

vars == <<pc, input, hint, result, valid, country, resolved, stripped>>

\* ------------------------------------------------------------------ bounds

\* Most '0' characters typed between the calling code and the subscriber digits.
MaxZeros == 2
\* Most subscriber digits typed after those zeros.
MaxFill == 13
\* Most whitespace characters put on each side of a country hint.
MaxPad == 1
\* Most digits of a numeric country hint.
MaxHintDigits == 4
\* Most characters of a free-form input given to the sanitizer.
MaxTyped == 4

\* ------------------------------------------------------- program constants

\* phone.rs:142  (len >= 7) && (len <= 15)
MinE164Digits == 7
MaxE164Digits == 15

\* ------------------------------------------------------------ characters

None == <<>>
Some(x) == <<x>>

DigitChars == <<"0", "1", "2", "3", "4", "5", "6", "7", "8", "9">>
LowerChars == <<"a", "b", "c", "d", "e", "f", "g", "h", "i", "j", "k", "l", "m",
                "n", "o", "p", "q", "r", "s", "t", "u", "v", "w", "x", "y", "z">>
UpperChars == <<"A", "B", "C", "D", "E", "F", "G", "H", "I", "J", "K", "L", "M",
                "N", "O", "P", "Q", "R", "S", "T", "U", "V", "W", "X", "Y", "Z">>
WhiteChars == {" ", "\t"}

\* char::is_ascii_digit
is_ascii_digit(c) == c \in {"0", "1", "2", "3", "4", "5", "6", "7", "8", "9"}

\* char::to_ascii_uppercase
char_to_ascii_uppercase(c) ==
    IF \E i \in 1..Len(LowerChars) : LowerChars[i] = c
    THEN UpperChars[CHOOSE i \in 1..Len(LowerChars) : LowerChars[i] = c]
    ELSE c

\* str::to_ascii_uppercase
to_ascii_uppercase(s) == [i \in 1..Len(s) |-> char_to_ascii_uppercase(s[i])]

\* str::starts_with
starts_with(s, p) == Len(s) >= Len(p) /\ SubSeq(s, 1, Len(p)) = p

\* &s[n..]
slice_from(s, n) == SubSeq(s, n + 1, Len(s))

\* &s[..n]
slice_to(s, n) == SubSeq(s, 1, n)

\* s.chars().all(|c| c.is_ascii_digit())
all_ascii_digits(s) == \A i \in 1..Len(s) : is_ascii_digit(s[i])

\* str::trim_start_matches(c): every leading c is removed
RECURSIVE trim_start_matches(_, _)
trim_start_matches(s, c) ==
    IF Len(s) > 0 /\ s[1] = c THEN trim_start_matches(Tail(s), c) ELSE s

\* str::trim_start / trim_end / trim over whitespace
RECURSIVE trim_start(_)
trim_start(s) ==
    IF Len(s) > 0 /\ s[1] \in WhiteChars THEN trim_start(Tail(s)) ELSE s

RECURSIVE trim_end(_)
trim_end(s) ==
    IF Len(s) > 0 /\ s[Len(s)] \in WhiteChars
    THEN trim_end(SubSeq(s, 1, Len(s) - 1))
    ELSE s

trim(s) == trim_end(trim_start(s))

\* -------------------------------------------------------- country tables

\* code_to_iso: the match arms in source order, <<code, iso>>
CodeToIsoArms ==
    << << <<"8","4">>, <<"V","N">> >>,
       << <<"1">>, <<"U","S">> >>,
       << <<"4","4">>, <<"G","B">> >>,
       << <<"4","9">>, <<"D","E">> >>,
       << <<"3","3">>, <<"F","R">> >>,
       << <<"8","1">>, <<"J","P">> >>,
       << <<"8","2">>, <<"K","R">> >>,
       << <<"6","5">>, <<"S","G">> >>,
       << <<"6","6">>, <<"T","H">> >>,
       << <<"8","6">>, <<"C","N">> >>,
       << <<"8","5","2">>, <<"H","K">> >>,
       << <<"8","5","3">>, <<"M","O">> >>,
       << <<"8","8","6">>, <<"T","W">> >>,
       << <<"6","2">>, <<"I","D">> >>,
       << <<"6","0">>, <<"M","Y">> >>,
       << <<"6","3">>, <<"P","H">> >>,
       << <<"6","1">>, <<"A","U">> >>,
       << <<"6","4">>, <<"N","Z">> >>,
       << <<"3","4">>, <<"E","S">> >>,
       << <<"3","9">>, <<"I","T">> >>,
       << <<"7">>, <<"R","U">> >>,
       << <<"5","5">>, <<"B","R">> >>,
       << <<"5","2">>, <<"M","X">> >>,
       << <<"9","1">>, <<"I","N">> >> >>

\* is_known_code: the alternatives of its matches!
KnownCodeArms ==
    { <<"1">>, <<"7">>, <<"3","3">>, <<"3","4">>, <<"3","9">>, <<"4","4">>,
      <<"4","9">>, <<"5","2">>, <<"5","5">>, <<"6","0">>, <<"6","1">>,
      <<"6","2">>, <<"6","3">>, <<"6","4">>, <<"6","5">>, <<"6","6">>,
      <<"8","1">>, <<"8","2">>, <<"8","4">>, <<"8","6">>, <<"8","5","2">>,
      <<"8","5","3">>, <<"8","8","6">>, <<"9","1">> }

\* code_to_cow_static: the codes it lifts to 'static
CowStaticArms ==
    { <<"1">>, <<"7">>, <<"3","3">>, <<"3","4">>, <<"3","9">>, <<"4","4">>,
      <<"4","9">>, <<"5","2">>, <<"5","5">>, <<"6","0">>, <<"6","1">>,
      <<"6","2">>, <<"6","3">>, <<"6","4">>, <<"6","5">>, <<"6","6">>,
      <<"8","1">>, <<"8","2">>, <<"8","4">>, <<"8","6">>, <<"8","5","2">>,
      <<"8","5","3">>, <<"8","8","6">>, <<"9","1">> }

\* is_trunk_zero_country: the alternatives of its matches!
TrunkZeroArms ==
    { <<"V","N">>, <<"G","B">>, <<"D","E">>, <<"F","R">>, <<"I","T">>,
      <<"T","H">>, <<"M","Y">>, <<"I","D">>, <<"J","P">>, <<"K","R">> }

\* resolve_country_hint: the ISO alpha-2 match arms in source order, <<iso, code>>
IsoHintArms ==
    << << <<"V","N">>, <<"8","4">> >>,
       << <<"U","S">>, <<"1">> >>,
       << <<"C","A">>, <<"1">> >>,
       << <<"S","G">>, <<"6","5">> >>,
       << <<"T","H">>, <<"6","6">> >>,
       << <<"C","N">>, <<"8","6">> >>,
       << <<"J","P">>, <<"8","1">> >>,
       << <<"K","R">>, <<"8","2">> >>,
       << <<"G","B">>, <<"4","4">> >>,
       << <<"D","E">>, <<"4","9">> >>,
       << <<"F","R">>, <<"3","3">> >>,
       << <<"A","U">>, <<"6","1">> >>,
       << <<"N","Z">>, <<"6","4">> >>,
       << <<"M","Y">>, <<"6","0">> >>,
       << <<"I","D">>, <<"6","2">> >>,
       << <<"P","H">>, <<"6","3">> >>,
       << <<"E","S">>, <<"3","4">> >>,
       << <<"I","T">>, <<"3","9">> >>,
       << <<"R","U">>, <<"7">> >>,
       << <<"B","R">>, <<"5","5">> >>,
       << <<"M","X">>, <<"5","2">> >>,
       << <<"I","N">>, <<"9","1">> >>,
       << <<"H","K">>, <<"8","5","2">> >>,
       << <<"M","O">>, <<"8","5","3">> >>,
       << <<"T","W">>, <<"8","8","6">> >> >>

\* A match on k, its arms tried in order from the i-th: Some(value) of the first
\* arm whose key is k, or None (the `_` arm)
RECURSIVE match_arms(_, _, _)
match_arms(arms, k, i) ==
    IF i > Len(arms)
    THEN None
    ELSE IF arms[i][1] = k
    THEN Some(arms[i][2])
    ELSE match_arms(arms, k, i + 1)

first_arm(arms, k) == match_arms(arms, k, 1)

is_known_code(code) == code \in KnownCodeArms

code_to_iso(code) == first_arm(CodeToIsoArms, code)

code_to_cow_static(code) == IF code \in CowStaticArms THEN Some(code) ELSE None

\* Mutant of is_trunk_zero_country: "VN" is missing from the list
is_trunk_zero_country_without_vn(iso) == iso \in (TrunkZeroArms \ { <<"V", "N">> })

is_trunk_zero_country(iso) == iso \in TrunkZeroArms

\* ------------------------------------------------------------- functions

\* Mutant of is_valid_e164: the upper bound is off by one (len <= 16)
is_valid_e164_max16(s) ==
    /\ starts_with(s, <<"+">>)
    /\ all_ascii_digits(slice_from(s, 1))
    /\ Len(s) - 1 >= MinE164Digits
    /\ Len(s) - 1 <= MaxE164Digits + 1

\* pub fn is_valid_e164(s: &str) -> bool
is_valid_e164(s) ==
    IF ~starts_with(s, <<"+">>)
    THEN FALSE
    ELSE LET digits == slice_from(s, 1)
         IN  IF digits = <<>> \/ ~all_ascii_digits(digits)
             THEN FALSE
             ELSE Len(digits) >= MinE164Digits /\ Len(digits) <= MaxE164Digits

\* fn strip_non_digits_keep_plus: the loop from index i (1-based) on
RECURSIVE strip_from(_, _)
strip_from(s, i) ==
    IF i > Len(s)
    THEN <<>>
    ELSE (IF is_ascii_digit(s[i]) THEN <<s[i]>>
          ELSE IF s[i] = "+" /\ i = 1 THEN <<s[i]>>
          ELSE <<>>) \o strip_from(s, i + 1)

\* Mutant of strip_non_digits_keep_plus: the `i == 0` test is missing, so a '+'
\* is kept wherever it stands
RECURSIVE strip_keeping_every_plus(_)
strip_keeping_every_plus(s) ==
    IF s = <<>>
    THEN <<>>
    ELSE (IF is_ascii_digit(s[1]) \/ s[1] = "+" THEN <<s[1]>> ELSE <<>>)
         \o strip_keeping_every_plus(Tail(s))

strip_non_digits_keep_plus(s) == strip_from(s, 1)

\* The (calling code, ISO) pair both lookups return
CodePair(cc, iso) == [cc |-> cc, iso |-> iso]

\* Some((code_to_cow_static(code)?, iso))
lift_code(code, iso) ==
    IF code_to_cow_static(code) = None
    THEN None
    ELSE Some(CodePair(code_to_cow_static(code)[1], iso))

\* Mutant of resolve_country_hint: the hint is trimmed but not upper-cased
resolve_country_hint_case_sensitive(h) ==
    LET up == trim(h)
    IN  IF starts_with(up, <<"+">>) /\ all_ascii_digits(slice_from(up, 1))
        THEN LET code == slice_from(up, 1)
             IN  IF code # <<>> /\ Len(code) <= 3
                 THEN lift_code(code, code_to_iso(code))
                 ELSE None
        ELSE IF all_ascii_digits(up) /\ up # <<>> /\ Len(up) <= 3
        THEN lift_code(up, code_to_iso(up))
        ELSE IF first_arm(IsoHintArms, up) # None
        THEN Some(CodePair(first_arm(IsoHintArms, up)[1], Some(up)))
        ELSE None

\* fn resolve_country_hint(hint: &str)
resolve_country_hint(h) ==
    LET up == to_ascii_uppercase(trim(h))
    IN  IF starts_with(up, <<"+">>) /\ all_ascii_digits(slice_from(up, 1))
        THEN LET code == slice_from(up, 1)
             IN  IF code # <<>> /\ Len(code) <= 3
                 THEN lift_code(code, code_to_iso(code))
                 ELSE None
        ELSE IF all_ascii_digits(up) /\ up # <<>> /\ Len(up) <= 3
        THEN lift_code(up, code_to_iso(up))
        ELSE IF first_arm(IsoHintArms, up) # None
        THEN Some(CodePair(first_arm(IsoHintArms, up)[1], Some(up)))
        ELSE None

\* match_country_code_prefix: the candidate lengths, in the order tried
PrefixLens == <<3, 2, 1>>

\* match_country_code_prefix: the loop from the k-th candidate length on
RECURSIVE match_from(_, _)
match_from(digits, k) ==
    IF k > Len(PrefixLens)
    THEN None
    ELSE LET len == PrefixLens[k]
         IN  IF Len(digits) < len
             THEN match_from(digits, k + 1)
             ELSE LET cand == slice_to(digits, len)
                  IN  IF code_to_iso(cand) # None
                      THEN lift_code(cand, code_to_iso(cand))
                      ELSE IF is_known_code(cand)
                      THEN lift_code(cand, None)
                      ELSE match_from(digits, k + 1)

\* Mutant of match_country_code_prefix: the 3-digit candidate is never tried
match_country_code_prefix_from_2(digits) == match_from(digits, 2)

\* fn match_country_code_prefix(digits_after_plus: &str)
match_country_code_prefix(digits) == match_from(digits, 1)

\* struct PhoneNumber
PhoneNumber(raw, e164, cc, nsn, iso) ==
    [raw |-> raw, e164 |-> e164, country_code |-> cc,
     national_number |-> nsn, iso_country |-> iso]

\* iso.map(is_trunk_zero_country).unwrap_or(false)
iso_is_trunk_zero(iso) == iso # None /\ is_trunk_zero_country(iso[1])

\* normalize_phone, the branch taken when s starts with '+'
normalize_plus_form(raw, s) ==
    LET digits == slice_from(s, 1)
    IN  IF ~all_ascii_digits(digits)
        THEN None
        ELSE IF match_country_code_prefix(digits) = None
        THEN None
        ELSE LET m    == match_country_code_prefix(digits)[1]
                 nsn0 == slice_from(digits, Len(m.cc))
                 nsn  == IF iso_is_trunk_zero(m.iso) /\ starts_with(nsn0, <<"0">>)
                         THEN trim_start_matches(nsn0, "0")
                         ELSE nsn0
                 e164 == <<"+">> \o m.cc \o nsn
             IN  IF ~is_valid_e164(e164)
                 THEN None
                 ELSE Some(PhoneNumber(raw, e164, m.cc, nsn, m.iso))

\* normalize_phone, the local/national branch
normalize_national_form(raw, s, default_country) ==
    IF resolve_country_hint(default_country) = None
    THEN None
    ELSE LET r    == resolve_country_hint(default_country)[1]
             nsn0 == SelectSeq(s, is_ascii_digit)
             nsn  == IF iso_is_trunk_zero(r.iso) /\ starts_with(nsn0, <<"0">>)
                     THEN Tail(nsn0)
                     ELSE nsn0
             e164 == <<"+">> \o r.cc \o nsn
         IN  IF nsn = <<>>
             THEN None
             ELSE IF ~is_valid_e164(e164)
             THEN None
             ELSE Some(PhoneNumber(raw, e164, r.cc, nsn, r.iso))

\* Mutant of normalize_phone: a "00" prefix is not taken as international, and
\* the number goes through the national branch
normalize_phone_without_00(in, default_country) ==
    LET raw == in
        s   == strip_non_digits_keep_plus(in)
    IN  IF s = <<>>
        THEN None
        ELSE IF starts_with(s, <<"+">>)
        THEN normalize_plus_form(raw, s)
        ELSE normalize_national_form(raw, s, default_country)

\* normalize_phone, the "00" branch: the '+' form it re-runs on
plus_form(s) == <<"+">> \o slice_from(s, 2)

\* pub fn normalize_phone(input: &str, default_country: &str) -> Option<PhoneNumber>
RECURSIVE normalize_phone(_, _)
normalize_phone(in, default_country) ==
    LET raw == in
        s   == strip_non_digits_keep_plus(in)
    IN  IF s = <<>>
        THEN None
        ELSE IF starts_with(s, <<"+">>)
        THEN normalize_plus_form(raw, s)
        ELSE IF starts_with(s, <<"0", "0">>)
        THEN normalize_phone(plus_form(s), default_country)
        ELSE normalize_national_form(raw, s, default_country)

\* pub fn normalize_vn_phone(input: &str) -> Option<String>
normalize_vn_phone(in) ==
    IF normalize_phone(in, <<"V", "N">>) = None
    THEN None
    ELSE Some(normalize_phone(in, <<"V", "N">>)[1].e164)

\* Mutant of detect_country: the country is looked up from the first two digits
detect_country_two_digits(e164) ==
    IF ~is_valid_e164(e164) THEN None ELSE code_to_iso(SubSeq(e164, 2, 3))

\* pub fn detect_country(e164: &str) -> Option<&'static str>
detect_country(e164) ==
    IF ~is_valid_e164(e164)
    THEN None
    ELSE LET digits == slice_from(e164, 1)
         IN  IF match_country_code_prefix(digits) = None
             THEN None
             ELSE LET m == match_country_code_prefix(digits)[1]
                  IN  IF m.iso # None THEN m.iso ELSE code_to_iso(m.cc)

\* ---------------------------------------------------------------- inputs

\* n copies of c
Repeat(c, n) == [i \in 1..n |-> c]

\* The subscriber digits typed: the first n of 9 1 2 3 4 5 6 7 8 9 1 2 ...
Fill(n) == [i \in 1..n |-> IF i = 1 THEN "9" ELSE DigitChars[((i - 2) % 9) + 2]]

\* What is typed before the number: nothing, '+', the "00" international prefix,
\* a '+' that is not the first character, an opening parenthesis
Leads == { <<>>, <<"+">>, <<"0", "0">>, <<" ", "+">>, <<"(">> }

\* The first digits typed: every calling code of the table, and digits that are none
Heads == KnownCodeArms \cup
         { <<>>, <<"2">>, <<"8">>, <<"8", "5">>, <<"8", "8">>, <<"1", "2">>,
           <<"9", "9", "9">> }

\* What separates the first digits from the subscriber digits
Seps == { <<>>, <<"-">> }

\* The inputs of the tests of lib.rs and of the documented examples
TestInputs ==
    { <<"0","9","1","2"," ","3","4","5"," ","6","7","8">>,
      <<"+","8","4"," ","9","1","2","-","3","4","5","-","6","7","8">>,
      <<"0","0","8","4"," ","9","1","2"," ","3","4","5"," ","6","7","8">>,
      <<"0","2","8"," ","3","8","2","2"," ","8","8","9","9">>,
      <<"(","4","1","5",")"," ","5","5","5","-","2","6","7","1">>,
      <<"9","1","2","3"," ","4","5","6","7">>,
      <<"a","b","c","-","x","y","z">>,
      <<"+","8","4","-","9","1","2","3","4","5","6","7","8">>,
      <<"+","1","2","3","4","5","6","7">>,
      <<"0","0","9","1","2","3","4","5","6","7","8">> }

PhoneInputs ==
    { l \o h \o Repeat("0", k) \o sp \o Fill(n) :
        l \in Leads, h \in Heads, k \in 0..MaxZeros, sp \in Seps, n \in 0..MaxFill }
    \cup TestInputs

\* Default-country hints given to normalize_phone: ISO codes (trunk-zero and not,
\* and "CA", which shares calling code 1), calling codes bare and with '+', a
\* lower-case padded hint, and two hints that do not resolve
NormalizeHints ==
    { <<"V", "N">>, <<"U", "S">>, <<"C", "A">>, <<"S", "G">>, <<"8", "4">>,
      <<"+", "4", "4">>, <<"1">>, <<" ", "g", "b">>, <<"X", "X">>, <<>> }

\* char::to_ascii_lowercase, used to vary the case of a hint
char_to_ascii_lowercase(c) ==
    IF \E i \in 1..Len(UpperChars) : UpperChars[i] = c
    THEN LowerChars[CHOOSE i \in 1..Len(UpperChars) : UpperChars[i] = c]
    ELSE c

\* The case variants of a hint: as is, lower case, each single character lowered
CaseVariants(s) ==
    { s, [i \in 1..Len(s) |-> char_to_ascii_lowercase(s[i])] } \cup
    { [i \in 1..Len(s) |-> IF i = j THEN char_to_ascii_lowercase(s[i]) ELSE s[i]] :
        j \in 1..Len(s) }

\* Digit strings of length 0..n over the digits of the hints tried
HintDigits == {"1", "4", "8"}

RECURSIVE DigitStrings(_)
DigitStrings(n) ==
    IF n = 0
    THEN { <<>> }
    ELSE DigitStrings(n - 1) \cup
         { <<d>> \o s : d \in HintDigits, s \in DigitStrings(n - 1) }

\* Whitespace runs of length 0..n
RECURSIVE Pads(_)
Pads(n) ==
    IF n = 0
    THEN { <<>> }
    ELSE Pads(n - 1) \cup { <<w>> \o s : w \in WhiteChars, s \in Pads(n - 1) }

\* The hints before padding: the ISO codes of the table and some that are not, in
\* every case variant; numeric hints with and without '+'; hints with inner spaces
HintCores ==
    UNION { CaseVariants(IsoHintArms[i][1]) : i \in 1..Len(IsoHintArms) }
    \cup UNION { CaseVariants(s) : s \in { <<"X", "X">>, <<"V">>, <<"V", "N", "N">>,
                                            <<"U", "K">> } }
    \cup { p \o d : p \in { <<>>, <<"+">> },
                    d \in DigitStrings(MaxHintDigits) \cup KnownCodeArms }
    \cup { <<"+", " ", "8", "4">>, <<"8", " ", "4">>, <<"+", "V", "N">>,
           <<"+", "+", "1">> }

HintInputs ==
    { l \o c \o r : l \in Pads(MaxPad), c \in HintCores, r \in Pads(MaxPad) }

\* The characters of the free-form inputs: '+', two digits, a space, a letter
TypedChars == {"+", "0", "1", " ", "a"}

\* Every string of length 0..n over those characters
RECURSIVE TypedStrings(_)
TypedStrings(n) ==
    IF n = 0
    THEN { <<>> }
    ELSE TypedStrings(n - 1) \cup
         { <<c>> \o s : c \in TypedChars, s \in TypedStrings(n - 1) }

\* The inputs given to the sanitizer: the free-form strings, with a '+' at any
\* position, and the phone inputs
StripInputs == TypedStrings(MaxTyped) \cup PhoneInputs

\* ----------------------------------------------------------- state machine

Init ==
    /\ pc = "idle"
    /\ input = <<>>
    /\ hint = <<>>
    /\ result = None
    /\ valid = FALSE
    /\ country = None
    /\ resolved = None
    /\ stripped = <<>>

\* A caller calls is_valid_e164(s)
CallIsValidE164 ==
    /\ pc = "idle"
    /\ \E s \in PhoneInputs :
         /\ input' = s
         /\ valid' = is_valid_e164(s)
    /\ pc' = "is_valid_e164"
    /\ UNCHANGED <<hint, result, country, resolved, stripped>>

\* A caller calls detect_country(s)
CallDetectCountry ==
    /\ pc = "idle"
    /\ \E s \in PhoneInputs :
         /\ input' = s
         /\ country' = detect_country(s)
    /\ pc' = "detect_country"
    /\ UNCHANGED <<hint, result, valid, resolved, stripped>>

\* normalize_phone calls resolve_country_hint(h)
CallResolveCountryHint ==
    /\ pc = "idle"
    /\ \E h \in HintInputs :
         /\ hint' = h
         /\ resolved' = resolve_country_hint(h)
    /\ pc' = "resolve_country_hint"
    /\ UNCHANGED <<input, result, valid, country, stripped>>

\* A caller calls normalize_phone(s, h)
CallNormalizePhone ==
    /\ pc = "idle"
    /\ \E s \in PhoneInputs, h \in NormalizeHints :
         /\ input' = s
         /\ hint' = h
         /\ result' = normalize_phone(s, h)
    /\ pc' = "normalize_phone"
    /\ UNCHANGED <<valid, country, resolved, stripped>>

\* The caller passes the e164 of a successful normalize_phone to detect_country
\* (lib.rs tests: detect_country(&us.e164))
CallDetectCountryOfResult ==
    /\ pc = "normalize_phone"
    /\ result # None
    /\ country' = detect_country(result[1].e164)
    /\ pc' = "detect_country_of_result"
    /\ UNCHANGED <<input, hint, result, valid, resolved, stripped>>

\* normalize_phone calls strip_non_digits_keep_plus(s)
CallStripNonDigitsKeepPlus ==
    /\ pc = "idle"
    /\ \E s \in StripInputs :
         /\ input' = s
         /\ stripped' = strip_non_digits_keep_plus(s)
    /\ pc' = "strip_non_digits_keep_plus"
    /\ UNCHANGED <<hint, result, valid, country, resolved>>

Next ==
    \/ CallStripNonDigitsKeepPlus
    \/ CallIsValidE164
    \/ CallDetectCountry
    \/ CallResolveCountryHint
    \/ CallNormalizePhone
    \/ CallDetectCountryOfResult

Spec == Init /\ [][Next]_vars

\* ------------------------------------------------------------------ claims

\* The ASCII digits, as the claims speak of them
DigitSet == {"0", "1", "2", "3", "4", "5", "6", "7", "8", "9"}

IsDigitChar(c) == c \in DigitSet

\* '+' followed by 7 to 15 ASCII digits
E164Shape(x) ==
    /\ Len(x) >= 1
    /\ x[1] = "+"
    /\ Len(x) - 1 >= 7
    /\ Len(x) - 1 <= 15
    /\ \A i \in 2..Len(x) : x[i] \in DigitSet

\* The calling codes of the country table
TableCodes == { CodeToIsoArms[i][1] : i \in 1..Len(CodeToIsoArms) }

\* The trunk-zero countries the specification lists
TrunkZeroListed ==
    { <<"V","N">>, <<"G","B">>, <<"D","E">>, <<"F","R">>, <<"I","T">>,
      <<"T","H">>, <<"M","Y">>, <<"I","D">>, <<"J","P">>, <<"K","R">> }

\* The sanitized form of the input of the call
Sanitized == strip_non_digits_keep_plus(input)

\* The input is in the explicit international form ('+' or "00")
InternationalForm ==
    starts_with(Sanitized, <<"+">>) \/ starts_with(Sanitized, <<"0", "0">>)

\* The digits after the '+' or the "00" of an international-form input
InternationalDigits ==
    IF starts_with(Sanitized, <<"+">>)
    THEN slice_from(Sanitized, 1)
    ELSE slice_from(Sanitized, 2)

\* normalize_phone has returned (and its result may have been passed on)
Normalized == pc \in {"normalize_phone", "detect_country_of_result"}

\* C1: whenever normalize_phone returns a PhoneNumber p, p.e164 is '+' and 7 to
\* 15 digits, p.country_code is a 1-3 digit calling code of the table,
\* p.national_number is non-empty, and country_code \o national_number is the
\* digits of e164.
C1_PhoneNumberInvariant ==
    (Normalized /\ result # None) =>
        LET p == result[1]
        IN  /\ E164Shape(p.e164)
            /\ p.country_code \in TableCodes
            /\ Len(p.country_code) >= 1
            /\ Len(p.country_code) <= 3
            /\ p.national_number # <<>>
            /\ p.country_code \o p.national_number = SubSeq(p.e164, 2, Len(p.e164))

\* C1 witness: a call returned a PhoneNumber of the longest E.164 (15 digits)
C1_Witness ==
    /\ pc = "normalize_phone"
    /\ result # None
    /\ Len(result[1].e164) = 16
    /\ Len(result[1].country_code) = 3

\* C2 as stated: every valid E.164 input comes back with e164 equal to it,
\* whatever the hint.
C2_IdempotentOnValidE164 ==
    (pc = "normalize_phone" /\ is_valid_e164(input)) =>
        (result # None /\ result[1].e164 = input)

\* The valid E.164 inputs normalize_phone leaves as they are: the digits start
\* with a calling code of the table and, for a trunk-zero country, the digits
\* after the code do not start with '0'
C2_Canonical(x) ==
    \E cc \in TableCodes :
        /\ starts_with(slice_from(x, 1), cc)
        /\ ~(/\ code_to_iso(cc) # None
             /\ code_to_iso(cc)[1] \in TrunkZeroListed
             /\ starts_with(slice_from(x, 1 + Len(cc)), <<"0">>))

\* C2 amended: a valid E.164 input whose digits start with a calling code of the
\* table, and whose national part does not start with '0' when the country is a
\* trunk-zero country, comes back with e164 equal to it, whatever the hint.
C2_IdempotentOnCanonical ==
    (pc = "normalize_phone" /\ is_valid_e164(input) /\ C2_Canonical(input)) =>
        (result # None /\ result[1].e164 = input)

\* C2 witness: a valid E.164 input came back unchanged under a hint that does
\* not resolve
C2_Witness ==
    /\ pc = "normalize_phone"
    /\ is_valid_e164(input)
    /\ C2_Canonical(input)
    /\ resolve_country_hint(hint) = None
    /\ result # None
    /\ result[1].e164 = input

\* The calling code of the table the international digits start with, and the
\* digits after it
C3_Code == CHOOSE cc \in TableCodes : starts_with(InternationalDigits, cc)

C3_Remainder == slice_from(InternationalDigits, Len(C3_Code))

\* C3: in the international form, when the matched country is a trunk-zero
\* country and the remainder starts with '0', exactly one leading '0' is
\* removed; no call removes more than one leading '0'.
C3_SingleZeroStripped ==
    (pc = "normalize_phone" /\ result # None /\ InternationalForm) =>
        /\ (/\ result[1].iso_country # None
            /\ result[1].iso_country[1] \in TrunkZeroListed
            /\ starts_with(C3_Remainder, <<"0">>))
              => result[1].national_number = Tail(C3_Remainder)
        /\ Len(C3_Remainder) - Len(result[1].national_number) <= 1

\* C4: the raw field of a returned PhoneNumber is the input the caller passed,
\* on every path.
C4_RawIsInput ==
    (pc = "normalize_phone" /\ result # None) => result[1].raw = input

\* Two outcomes of normalize_phone agree: both fail, or both succeed with equal
\* e164, country_code, national_number and iso_country
SameOutcome(a, b) ==
    \/ a = None /\ b = None
    \/ /\ a # None
       /\ b # None
       /\ a[1].e164 = b[1].e164
       /\ a[1].country_code = b[1].country_code
       /\ a[1].national_number = b[1].national_number
       /\ a[1].iso_country = b[1].iso_country

\* The hint every other hint's outcome is compared with
C5_ReferenceHint == <<"V", "N">>

\* C5: for an input whose sanitized form starts with '+' or "00" the outcome is
\* the same under every hint (each hint's outcome is that of one reference
\* hint), and an input "00" d has the outcome of '+' d.
C5_HintIndependent ==
    (pc = "normalize_phone" /\ InternationalForm) =>
        /\ SameOutcome(result, normalize_phone(input, C5_ReferenceHint))
        /\ starts_with(Sanitized, <<"0", "0">>) =>
             SameOutcome(result,
                         normalize_phone(<<"+">> \o slice_from(Sanitized, 2), hint))

\* C5 witness: a "00" input succeeded under a hint that does not resolve
C5_Witness ==
    /\ pc = "normalize_phone"
    /\ starts_with(Sanitized, <<"0", "0">>)
    /\ resolve_country_hint(hint) = None
    /\ result # None
    /\ result[1].iso_country = Some(<<"V", "N">>)

\* The input is in the national form: sanitized, it is non-empty and starts with
\* neither '+' nor "00"
NationalForm == Sanitized # <<>> /\ ~InternationalForm

\* The outcome C6 states for a national-form input under the resolved hint r
C6_Expected(r) ==
    LET d  == SelectSeq(Sanitized, IsDigitChar)
        nn == IF /\ r.iso # None
                 /\ r.iso[1] \in TrunkZeroListed
                 /\ starts_with(d, <<"0">>)
              THEN Tail(d)
              ELSE d
        e  == <<"+">> \o r.cc \o nn
    IN  IF nn = <<>> \/ ~E164Shape(e)
        THEN None
        ELSE Some([e164 |-> e, country_code |-> r.cc, national_number |-> nn,
                   iso_country |-> r.iso])

\* C6: a national-form input fails when the hint does not resolve; otherwise the
\* national number is the digits with one leading '0' removed for a trunk-zero
\* country, the call fails when that is empty or the assembled number is not
\* valid E.164, and else returns '+' cc national_number with the hint's cc and iso.
C6_NationalForm ==
    (pc = "normalize_phone" /\ NationalForm) =>
        IF resolve_country_hint(hint) = None
        THEN result = None
        ELSE LET x == C6_Expected(resolve_country_hint(hint)[1])
             IN  IF x = None
                 THEN result = None
                 ELSE /\ result # None
                      /\ result[1].e164 = x[1].e164
                      /\ result[1].country_code = x[1].country_code
                      /\ result[1].national_number = x[1].national_number
                      /\ result[1].iso_country = x[1].iso_country

\* C6 witness: "0912 345 678" with "VN" gave +84912345678
C6_Witness ==
    /\ pc = "normalize_phone"
    /\ input = <<"0","9","1","2"," ","3","4","5"," ","6","7","8">>
    /\ hint = <<"V", "N">>
    /\ result # None
    /\ result[1].e164 = <<"+","8","4","9","1","2","3","4","5","6","7","8">>
    /\ result[1].national_number = <<"9","1","2","3","4","5","6","7","8">>

\* C7: detect_country of a valid E.164 string whose digits start with a calling
\* code cc of the table is the ISO country of cc; of any other string it is None.
C7_DetectRoundTrip ==
    pc = "detect_country" =>
        IF /\ E164Shape(input)
           /\ \E cc \in TableCodes : starts_with(slice_from(input, 1), cc)
        THEN \A cc \in TableCodes :
                 starts_with(slice_from(input, 1), cc) => country = code_to_iso(cc)
        ELSE country = None

\* C7 witness: a number of a 3-digit calling code was detected as its country
C7_Witness ==
    /\ pc = "detect_country"
    /\ starts_with(input, <<"+", "8", "5", "2">>)
    /\ country = Some(<<"H", "K">>)

\* C8: is_valid_e164(s) is true exactly when s is '+' followed by 7 to 15 ASCII
\* digits and nothing else.
C8_ValidIffShape ==
    pc = "is_valid_e164" => (valid <=> E164Shape(input))

\* C8 witness: "+1234567", of the fewest digits, was accepted
C8_Witness ==
    /\ pc = "is_valid_e164"
    /\ input = <<"+", "1", "2", "3", "4", "5", "6", "7">>
    /\ valid

\* C9 as stated: detect_country of the e164 of a successful normalize_phone is
\* the iso_country of the PhoneNumber.
C9_DetectAgreesWithIso ==
    (pc = "detect_country_of_result" /\ result[1].iso_country # None) =>
        country = result[1].iso_country

\* C9 amended: it is the iso_country unless that is "CA" (the hint "CA" in the
\* national form), and then detect_country gives "US".
C9_DetectAgreesUnlessCA ==
    (pc = "detect_country_of_result" /\ result[1].iso_country # None) =>
        IF result[1].iso_country = Some(<<"C", "A">>)
        THEN country = Some(<<"U", "S">>)
        ELSE country = result[1].iso_country

\* C9 witness: a national number under the hint "+44" was detected as "GB"
C9_Witness ==
    /\ pc = "detect_country_of_result"
    /\ hint = <<"+", "4", "4">>
    /\ NationalForm
    /\ result[1].iso_country = Some(<<"G", "B">>)
    /\ country = Some(<<"G", "B">>)

\* What C10 states resolve_country_hint gives for the trimmed, upper-cased hint t
C10_Expected(t) ==
    LET d == IF starts_with(t, <<"+">>) THEN slice_from(t, 1) ELSE t
    IN  IF Len(d) >= 1 /\ Len(d) <= 3 /\ \A i \in 1..Len(d) : d[i] \in DigitSet
        THEN IF d \in TableCodes
             THEN Some([cc |-> d, iso |-> code_to_iso(d)])
             ELSE None
        ELSE IF \E i \in 1..Len(IsoHintArms) : IsoHintArms[i][1] = t
        THEN LET i == CHOOSE j \in 1..Len(IsoHintArms) : IsoHintArms[j][1] = t
             IN  Some([cc |-> IsoHintArms[i][2], iso |-> Some(t)])
        ELSE None

\* C10: resolve_country_hint works on the hint trimmed and upper-cased; '+' and
\* 1-3 digits, or 1-3 bare digits, resolve to (digits, ISO of digits) when the
\* digits are a calling code of the table; one of the 25 ISO codes resolves to
\* its calling code and itself; every other hint resolves to None.
C10_ResolveHint ==
    pc = "resolve_country_hint" =>
        /\ resolved = C10_Expected(to_ascii_uppercase(trim(hint)))
        /\ Len(IsoHintArms) = 25

\* C10 witness: the padded lower-case hint " ca" resolved to ("1", "CA")
C10_Witness ==
    /\ pc = "resolve_country_hint"
    /\ hint = <<" ", "c", "a">>
    /\ resolved = Some([cc |-> <<"1">>, iso |-> Some(<<"C", "A">>)])

\* The ASCII digits of the input, in their order
C11_Digits == SelectSeq(input, IsDigitChar)

\* The first character of the input is '+'
C11_LeadingPlus == Len(input) >= 1 /\ input[1] = "+"

\* C11: the sanitizer's output is the input's ASCII digits in order, preceded by
\* '+' exactly when the first character of the input is '+'; it holds at most
\* one '+', at index 0 only, and is empty exactly when the input has no digit
\* and no leading '+'; normalize_phone returns None when it is empty.
C11_SanitizerOutput ==
    /\ pc = "strip_non_digits_keep_plus" =>
         /\ stripped = (IF C11_LeadingPlus THEN <<"+">> ELSE <<>>) \o C11_Digits
         /\ \A i \in 2..Len(stripped) : stripped[i] # "+"
         /\ (stripped = <<>>) <=> (C11_Digits = <<>> /\ ~C11_LeadingPlus)
    /\ (pc = "normalize_phone" /\ C11_Digits = <<>> /\ ~C11_LeadingPlus) =>
         result = None

\* C11 witness: of "+1+0" the leading '+' was kept and the later '+' dropped
C11_Witness ==
    /\ pc = "strip_non_digits_keep_plus"
    /\ input = <<"+", "1", "+", "0">>
    /\ stripped = <<"+", "1", "0">>

\* C11 witness of the second part: "abc-xyz" has no digit, and the call failed
C11_WitnessNoDigits ==
    /\ pc = "normalize_phone"
    /\ input = <<"a","b","c","-","x","y","z">>
    /\ result = None

====
